---- MODULE Spec2Model ----
(***************************************************************************)
(* A model of the imprint record library: the varint codec, the value and  *)
(* record wire codec, the record builder (ImprintWriter), field access     *)
(* (get_value, get_raw_bytes) and the two structural operations project    *)
(* and merge.                                                              *)
(*                                                                         *)
(* Representation.  A byte is an integer 0..255 and a byte buffer is a     *)
(* sequence of bytes.  A u32 or i32 is carried as its 32-bit pattern read  *)
(* as a two's complement integer (0xdeadbeef is -559038737), so that every *)
(* 32-bit quantity fits the integers of TLC; the little-endian codecs      *)
(* below work on that pattern, and the order and the arithmetic of u32 are *)
(* the unsigned ones of the pattern (U32Less, U32WrappingAdd).  Sequences  *)
(* are 1-based: the Rust index i is position i + 1 here.  A Result is a    *)
(* record with an "err" field that is "none" on Ok, the error kind on Err, *)
(* and "panic" when the code panics or aborts.                             *)
(* Header.payload_size (types.rs:261) is left out of the header: it is not *)
(* part of the wire form and Header::read (serde.rs:306) does not set it.  *)
(***************************************************************************)
EXTENDS Integers, Sequences, FiniteSets, TLC

\* ------------------------------------------------------------------ bounds

\* number of field ids used by the client: 1..MaxId - 1 and the id 0x80000000
MaxId == 3
\* total number of fields held by the records a client builds in one run
MaxFields == 3
\* length of the id list handed to project
MaxIdsLen == 2

\* ------------------------------------------------------- program constants

MAGIC == 73
VERSION == 1
FIELD_DIRECTORY == 1
CONTINUATION_BIT == 128
SEGMENT_BITS == 127
MAX_VARINT_LEN == 5
\* 0xdeadbeef as a 32-bit pattern
SENTINEL_HASH == -559038737
\* 0xcafebabe as a 32-bit pattern
CAFEBABE == -889275714

\* ------------------------------------------------------- sequence helpers

\* bytes[from..] in Rust terms: drop the first n elements
Drop(s, n) == IF n >= Len(s) THEN <<>> ELSE SubSeq(s, n + 1, Len(s))

\* payload[start..end] with Rust offsets (0-based, end exclusive)
Slice(s, start, end) == SubSeq(s, start + 1, end)

\* ------------------------------------------------------------ fixed width

\* BufMut::put_u32_le / put_i32_le: the four bytes of a 32-bit pattern
U32LE(x) ==
    << x % 256, (x \div 256) % 256, (x \div 65536) % 256, (x \div 16777216) % 256 >>

\* Buf::get_u32_le / get_i32_le: the 32-bit pattern of the first four bytes
GetU32LE(b) ==
    b[1] + 256 * b[2] + 65536 * b[3]
      + 16777216 * (IF b[4] >= 128 THEN b[4] - 256 ELSE b[4])

\* unsigned `a < b` on two u32 patterns: a pattern below 0 stands for a
\* number from 2^31 on
U32Less(a, b) == IF (a < 0) = (b < 0) THEN a < b ELSE b < 0

\* the low and the high 16 bits of a 32-bit pattern
Lo16(x) == x % 65536
Hi16(x) == (x \div 65536) % 65536

\* the 32-bit pattern of a high and a low half
FromHalves(hi, lo) == (IF hi >= 32768 THEN hi - 65536 ELSE hi) * 65536 + lo

\* `a + b` on u32 leaves the range of u32
U32AddOverflows(a, b) ==
    Hi16(a) + Hi16(b) + ((Lo16(a) + Lo16(b)) \div 65536) >= 65536

\* `a + b` on u32 without overflow checks: the sum modulo 2^32
U32WrappingAdd(a, b) ==
    LET lo == Lo16(a) + Lo16(b)
        hi == Hi16(a) + Hi16(b) + (lo \div 65536)
    IN  FromHalves(hi % 65536, lo % 65536)

\* `a - b` on u32 without overflow checks: the difference modulo 2^32
U32WrappingSub(a, b) ==
    LET lo == Lo16(a) - Lo16(b)
        hi == Hi16(a) - Hi16(b) - (IF lo < 0 THEN 1 ELSE 0)
    IN  FromHalves(hi % 65536, lo % 65536)

\* ----------------------------------------------------------------- varint

\* val >>= 7 on a u32 (logical shift of the 32-bit pattern)
Shr7(val) == IF val < 0 THEN (val \div 128) + 33554432 ELSE val \div 128

RECURSIVE encode(_)
\* varint::encode: the bytes appended to the buffer
encode(value) ==
    LET byte == value % (SEGMENT_BITS + 1)
        val  == Shr7(value)
    IN  IF val # 0
          THEN <<byte + CONTINUATION_BIT>> \o encode(val)
          ELSE <<byte>>

\* a shift that ignores the position of the segment
ShlSeven(segment, shift) == segment * 128

\* segment << shift on a u32, for the shifts decode uses
Shl(segment, shift) ==
    CASE shift = 0  -> segment
      [] shift = 7  -> segment * 128
      [] shift = 14 -> segment * 16384
      [] shift = 21 -> segment * 2097152
      [] OTHER      -> (IF segment % 16 >= 8 THEN (segment % 16) - 16 ELSE segment % 16)
                         * 268435456

\* a length check that never fires
TooLongNever(bytes_read) == FALSE

\* `bytes_read >= MAX_VARINT_LEN` at the top of the loop of decode
TooLong(bytes_read) == bytes_read >= MAX_VARINT_LEN

\* an overflow check that never fires
OverflowsNever(shift, segment) == FALSE

\* `shift >= 32 || (shift == 28 && segment > 0xF)`
Overflows(shift, segment) == shift >= 32 \/ (shift = 28 /\ segment > 15)

RECURSIVE decodeLoop(_, _, _, _)
decodeLoop(bytes, result, shift, bytes_read) ==
    IF TooLong(bytes_read) THEN [err |-> "InvalidVarInt", value |-> 0, n |-> 0]
    ELSE IF bytes_read >= Len(bytes) THEN [err |-> "BufferUnderflow", value |-> 0, n |-> 0]
    ELSE LET byte    == bytes[bytes_read + 1]
             segment == byte % (SEGMENT_BITS + 1)
         IN  IF Overflows(shift, segment)
               THEN [err |-> "InvalidVarInt", value |-> 0, n |-> 0]
             ELSE IF byte < CONTINUATION_BIT
               THEN [err |-> "none", value |-> result + Shl(segment, shift),
                     n |-> bytes_read + 1]
             ELSE decodeLoop(bytes, result + Shl(segment, shift), shift + 7,
                             bytes_read + 1)

\* varint::decode: (value, bytes read) or the error
decode(bytes) == decodeLoop(bytes, 0, 0, 0)

\* ------------------------------------------------------------ type system

\* A Value is [t |-> kind, v |-> content]: Null <<>>, Bool a BOOLEAN, Int32 a
\* 32-bit pattern, Int64 and Float64 <<low word, high word>>, Float32 its bit
\* pattern, Bytes and String their bytes, Array a sequence of Values, Row a
\* record.
TypeCodes ==
    <<"Null", "Bool", "Int32", "Int64", "Float32", "Float64", "Bytes", "String",
      "Array", "Row">>

\* Value::type_code
type_code(value) == value.t

\* `type_code as u8`
TypeCodeByte(tc) == CHOOSE i \in 0..9 : TypeCodes[i + 1] = tc

\* TypeCode::try_from(u8)
TypeCodeTryFrom(byte) ==
    IF byte <= 9 THEN [err |-> "none", tc |-> TypeCodes[byte + 1]]
    ELSE [err |-> "InvalidFieldType", tc |-> "Null"]

\* Flags::has_field_directory
has_field_directory(flags) == flags % 2 = FIELD_DIRECTORY

\* ------------------------------------------------------- wire codec: write

\* impl Write for SchemaId
WriteSchemaId(schema_id) == U32LE(schema_id.fieldspace_id) \o U32LE(schema_id.schema_hash)

\* impl Write for Header
WriteHeader(header) == <<MAGIC, VERSION, header.flags>> \o WriteSchemaId(header.schema_id)

\* impl Write for DirectoryEntry
WriteDirectoryEntry(entry) ==
    U32LE(entry.id) \o <<TypeCodeByte(entry.type_code)>> \o U32LE(entry.offset)

RECURSIVE WriteEntries(_, _)
WriteEntries(directory, i) ==
    IF i > Len(directory) THEN <<>>
    ELSE WriteDirectoryEntry(directory[i]) \o WriteEntries(directory, i + 1)

\* impl Write for ImprintRecord: the bytes appended to the buffer (never fails)
WriteRecord(record) ==
    WriteHeader(record.header)
      \o (IF has_field_directory(record.header.flags)
            THEN encode(Len(record.directory)) \o WriteEntries(record.directory, 1)
            ELSE <<>>)
      \o record.payload

RECURSIVE WriteValue(_, _)
RECURSIVE WriteElementsUnchecked(_, _, _, _)
\* an element loop that does not compare the type codes
WriteElementsUnchecked(v, i, tc, buf) ==
    IF i > Len(v) THEN [err |-> "none", buf |-> buf]
    ELSE LET w == WriteValue(v[i], buf)
         IN  IF w.err # "none" THEN w ELSE WriteElementsUnchecked(v, i + 1, tc, w.buf)

RECURSIVE WriteElements(_, _, _, _)
\* the loop of the Array arm: elements i.. of v written to buf
WriteElements(v, i, tc, buf) ==
    IF i > Len(v) THEN [err |-> "none", buf |-> buf]
    ELSE IF type_code(v[i]) # tc THEN [err |-> "SchemaError", buf |-> buf]
    ELSE LET w == WriteValue(v[i], buf)
         IN  IF w.err # "none" THEN w ELSE WriteElements(v, i + 1, tc, w.buf)

\* impl Write for Value: the result and the buffer as the call leaves it
WriteValue(value, buf) ==
    CASE value.t = "Null"    -> [err |-> "none", buf |-> buf]
      [] value.t = "Bool"    -> [err |-> "none", buf |-> buf \o <<IF value.v THEN 1 ELSE 0>>]
      [] value.t = "Int32"   -> [err |-> "none", buf |-> buf \o U32LE(value.v)]
      [] value.t = "Int64"   -> [err |-> "none",
                                 buf |-> buf \o U32LE(value.v[1]) \o U32LE(value.v[2])]
      [] value.t = "Float32" -> [err |-> "none", buf |-> buf \o U32LE(value.v)]
      [] value.t = "Float64" -> [err |-> "none",
                                 buf |-> buf \o U32LE(value.v[1]) \o U32LE(value.v[2])]
      [] value.t = "Bytes"   -> [err |-> "none", buf |-> buf \o encode(Len(value.v)) \o value.v]
      [] value.t = "String"  -> [err |-> "none", buf |-> buf \o encode(Len(value.v)) \o value.v]
      [] value.t = "Array"   ->
           IF Len(value.v) = 0 THEN [err |-> "SchemaError", buf |-> buf]
           ELSE WriteElements(value.v, 1, type_code(value.v[1]),
                              buf \o <<TypeCodeByte(type_code(value.v[1]))>>
                                  \o encode(Len(value.v)))
      [] OTHER               -> [err |-> "none", buf |-> buf \o WriteRecord(value.v)]

\* -------------------------------------------------------- wire codec: read

\* impl Read for SchemaId
ReadSchemaId(bytes) ==
    IF Len(bytes) < 8 THEN [err |-> "BufferUnderflow"]
    ELSE [err |-> "none",
          schema_id |-> [fieldspace_id |-> GetU32LE(bytes),
                         schema_hash |-> GetU32LE(Drop(bytes, 4))],
          n |-> 8]

\* a header parser that looks at the magic and the version before the length
ReadHeaderMagicFirst(bytes) ==
    IF Len(bytes) >= 1 /\ bytes[1] # MAGIC THEN [err |-> "InvalidMagic", byte |-> bytes[1]]
    ELSE IF Len(bytes) >= 2 /\ bytes[2] # VERSION
      THEN [err |-> "UnsupportedVersion", byte |-> bytes[2]]
    ELSE IF Len(bytes) < 11 THEN [err |-> "BufferUnderflow", byte |-> 0]
    ELSE [err |-> "none",
          header |-> [flags |-> bytes[3],
                      schema_id |-> [fieldspace_id |-> GetU32LE(Drop(bytes, 3)),
                                     schema_hash |-> GetU32LE(Drop(bytes, 7))]],
          n |-> 11]

\* impl Read for Header
ReadHeader(bytes) ==
    IF Len(bytes) < 11 THEN [err |-> "BufferUnderflow", byte |-> 0]
    ELSE IF bytes[1] # MAGIC THEN [err |-> "InvalidMagic", byte |-> bytes[1]]
    ELSE IF bytes[2] # VERSION THEN [err |-> "UnsupportedVersion", byte |-> bytes[2]]
    ELSE LET s == ReadSchemaId(Drop(bytes, 3))
         IN  IF s.err # "none" THEN [err |-> s.err, byte |-> 0]
             ELSE [err |-> "none",
                   header |-> [flags |-> bytes[3], schema_id |-> s.schema_id],
                   n |-> 11]

\* impl Read for DirectoryEntry
ReadDirectoryEntry(bytes) ==
    IF Len(bytes) < 9 THEN [err |-> "BufferUnderflow"]
    ELSE LET t == TypeCodeTryFrom(bytes[5])
         IN  IF t.err # "none" THEN [err |-> t.err]
             ELSE [err |-> "none",
                   entry |-> [id |-> GetU32LE(bytes), type_code |-> t.tc,
                              offset |-> GetU32LE(Drop(bytes, 5))],
                   n |-> 9]

RECURSIVE ReadEntries(_, _, _)
\* the loop `for _ in 0..count` of ImprintRecord::read
ReadEntries(bytes, count, directory) ==
    IF count = 0 THEN [err |-> "none", directory |-> directory, rest |-> bytes]
    ELSE LET e == ReadDirectoryEntry(bytes)
         IN  IF e.err # "none" THEN [err |-> e.err]
             ELSE ReadEntries(Drop(bytes, e.n), count - 1, Append(directory, e.entry))

\* impl Read for ImprintRecord: the record and the byte count it reports
ReadRecord(bytes) ==
    LET h == ReadHeader(bytes)
    IN  IF h.err # "none" THEN [err |-> h.err]
        ELSE LET body == Drop(bytes, h.n)
             IN  IF has_field_directory(h.header.flags)
                   THEN LET c == decode(body)
                        IN  IF c.err # "none" THEN [err |-> c.err]
                            ELSE LET d == ReadEntries(Drop(body, c.n), c.value, <<>>)
                                 IN  IF d.err # "none" THEN [err |-> d.err]
                                     ELSE [err |-> "none",
                                           record |-> [header |-> h.header,
                                                       directory |-> d.directory,
                                                       payload |-> d.rest],
                                           n |-> Len(d.rest)]
                   ELSE [err |-> "none",
                         record |-> [header |-> h.header, directory |-> <<>>,
                                     payload |-> body],
                         n |-> Len(body)]

\* String::from_utf8 succeeds: the bytes from position i on are well-formed UTF-8
RECURSIVE IsUtf8(_, _)
IsUtf8(b, i) ==
    LET Cont(k) == k <= Len(b) /\ b[k] >= 128 /\ b[k] <= 191
        In(k, lo, hi) == k <= Len(b) /\ b[k] >= lo /\ b[k] <= hi
    IN  IF i > Len(b) THEN TRUE
        ELSE IF b[i] < 128 THEN IsUtf8(b, i + 1)
        ELSE IF b[i] >= 194 /\ b[i] <= 223 THEN Cont(i + 1) /\ IsUtf8(b, i + 2)
        ELSE IF b[i] = 224 THEN In(i + 1, 160, 191) /\ Cont(i + 2) /\ IsUtf8(b, i + 3)
        ELSE IF b[i] = 237 THEN In(i + 1, 128, 159) /\ Cont(i + 2) /\ IsUtf8(b, i + 3)
        ELSE IF b[i] >= 225 /\ b[i] <= 239
          THEN Cont(i + 1) /\ Cont(i + 2) /\ IsUtf8(b, i + 3)
        ELSE IF b[i] = 240
          THEN In(i + 1, 144, 191) /\ Cont(i + 2) /\ Cont(i + 3) /\ IsUtf8(b, i + 4)
        ELSE IF b[i] = 244
          THEN In(i + 1, 128, 143) /\ Cont(i + 2) /\ Cont(i + 3) /\ IsUtf8(b, i + 4)
        ELSE IF b[i] >= 241 /\ b[i] <= 243
          THEN Cont(i + 1) /\ Cont(i + 2) /\ Cont(i + 3) /\ IsUtf8(b, i + 4)
        ELSE FALSE

\* the Bytes and String arms of Value::read, up to the copied bytes
ReadLengthPrefixed(bytes) ==
    LET l == decode(bytes)
    IN  IF l.err # "none" THEN [err |-> l.err]
        ELSE IF l.value < 0 \/ Len(bytes) - l.n < l.value THEN [err |-> "BufferUnderflow"]
        ELSE [err |-> "none", v |-> Slice(bytes, l.n, l.n + l.value), n |-> l.n + l.value]

\* Vec::with_capacity(len as usize) of the Array arm asks the allocator for
\* room for len values before any element is read, and the process aborts when
\* the allocator refuses.  What the allocator grants is not in the program's
\* hands: alloc_limit is the greatest capacity (a u32) it grants in the run.
AllocationFails(len, alloc_limit) == U32Less(alloc_limit, len)

RECURSIVE ReadValue(_, _, _)
RECURSIVE ReadElements(_, _, _, _, _, _)
\* the loop `for _ in 0..len` of the Array arm
ReadElements(element_type, bytes, len, values, bytes_read, alloc_limit) ==
    IF len = 0 THEN [err |-> "none", value |-> [t |-> "Array", v |-> values], n |-> bytes_read]
    ELSE LET r == ReadValue(element_type, bytes, alloc_limit)
         IN  IF r.err # "none" THEN [err |-> r.err]
             ELSE ReadElements(element_type, Drop(bytes, r.n), len - 1,
                               Append(values, r.value), bytes_read + r.n, alloc_limit)

\* impl ValueRead for Value: (value, bytes read), the error, or a panic; the
\* allocator of the run grants capacities up to alloc_limit
ReadValue(tc, bytes, alloc_limit) ==
    CASE tc = "Null" -> [err |-> "none", value |-> [t |-> "Null", v |-> <<>>], n |-> 0]
      [] tc = "Bool" ->
           IF Len(bytes) = 0 THEN [err |-> "BufferUnderflow"]
           ELSE IF bytes[1] = 0 THEN [err |-> "none", value |-> [t |-> "Bool", v |-> FALSE], n |-> 1]
           ELSE IF bytes[1] = 1 THEN [err |-> "none", value |-> [t |-> "Bool", v |-> TRUE], n |-> 1]
           ELSE [err |-> "SchemaError"]
      [] tc \in {"Int32", "Float32"} ->
           IF Len(bytes) < 4 THEN [err |-> "BufferUnderflow"]
           ELSE [err |-> "none", value |-> [t |-> tc, v |-> GetU32LE(bytes)], n |-> 4]
      [] tc \in {"Int64", "Float64"} ->
           IF Len(bytes) < 8 THEN [err |-> "BufferUnderflow"]
           ELSE [err |-> "none",
                 value |-> [t |-> tc, v |-> <<GetU32LE(bytes), GetU32LE(Drop(bytes, 4))>>],
                 n |-> 8]
      [] tc = "Bytes" ->
           LET r == ReadLengthPrefixed(bytes)
           IN  IF r.err # "none" THEN r
               ELSE [err |-> "none", value |-> [t |-> "Bytes", v |-> r.v], n |-> r.n]
      [] tc = "String" ->
           LET r == ReadLengthPrefixed(bytes)
           IN  IF r.err # "none" THEN r
               ELSE IF ~IsUtf8(r.v, 1) THEN [err |-> "InvalidUtf8String"]
               ELSE [err |-> "none", value |-> [t |-> "String", v |-> r.v], n |-> r.n]
      [] tc = "Array" ->
           IF Len(bytes) = 0 THEN [err |-> "panic"]
           ELSE LET e == TypeCodeTryFrom(bytes[1])
                    l == decode(Drop(bytes, 1))
                IN  IF e.err # "none" THEN [err |-> e.err]
                    ELSE IF l.err # "none" THEN [err |-> l.err]
                    ELSE IF AllocationFails(l.value, alloc_limit) THEN [err |-> "panic"]
                    ELSE ReadElements(e.tc, Drop(bytes, 1 + l.n), l.value, <<>>, 1 + l.n,
                                      alloc_limit)
      [] OTHER ->
           LET r == ReadRecord(bytes)
           IN  IF r.err # "none" THEN [err |-> r.err]
               ELSE [err |-> "none", value |-> [t |-> "Row", v |-> r.record], n |-> r.n]

\* ----------------------------------------------------------- field access

RECURSIVE BinarySearchBase(_, _, _, _)
\* the loop `while size > 1` of the standard library's binary_search_by: the
\* range is halved without an early exit, base moving to mid unless the entry
\* at mid is greater than the key, in the order of u32
BinarySearchBase(directory, field_id, base, size) ==
    IF size <= 1 THEN base
    ELSE LET half == size \div 2
             mid  == base + half
         IN  BinarySearchBase(directory, field_id,
                              IF U32Less(field_id, directory[mid + 1].id) THEN base ELSE mid,
                              size - half)

\* self.directory.binary_search_by_key(&field_id, |e| e.id) over [lo, hi):
\* the 0-based index of the hit, or -1.  One comparison at the end decides;
\* among repeated ids the last probe wins, and an unsorted directory may miss
\* an id it holds.
BinarySearch(directory, field_id, lo, hi) ==
    IF lo >= hi THEN -1
    ELSE LET base == BinarySearchBase(directory, field_id, lo, hi - lo)
         IN  IF directory[base + 1].id = field_id THEN base ELSE -1

\* ImprintRecord::get_value: Ok(Some(value)), Ok(None) or the error
get_value(record, field_id, alloc_limit) ==
    LET idx == BinarySearch(record.directory, field_id, 0, Len(record.directory))
    IN  IF idx < 0 THEN [err |-> "none", some |-> FALSE]
        ELSE LET entry == record.directory[idx + 1]
             IN  IF entry.offset < 0 \/ entry.offset > Len(record.payload)
                   THEN [err |-> "panic"]
                 ELSE LET r == ReadValue(entry.type_code, Drop(record.payload, entry.offset),
                                         alloc_limit)
                      IN  IF r.err # "none" THEN [err |-> r.err]
                          ELSE [err |-> "none", some |-> TRUE, value |-> r.value]

\* ImprintRecord::get_raw_bytes: Some(bytes), None, or a panic of the slice
get_raw_bytes(record, field_id) ==
    LET idx == BinarySearch(record.directory, field_id, 0, Len(record.directory))
    IN  IF idx < 0 THEN [err |-> "none", some |-> FALSE]
        ELSE LET start == record.directory[idx + 1].offset
                 next_offset == IF idx + 1 < Len(record.directory)
                                  THEN record.directory[idx + 2].offset
                                  ELSE Len(record.payload)
             IN  IF start < 0 \/ next_offset < start \/ next_offset > Len(record.payload)
                   THEN [err |-> "panic"]
                 ELSE [err |-> "none", some |-> TRUE,
                       bytes |-> Slice(record.payload, start, next_offset)]

\* ---------------------------------------------------------------- project

RECURSIVE Insert(_, _)
\* x put in its place in a sequence that ascends in the order of u32
Insert(sorted, x) ==
    IF sorted = <<>> \/ ~U32Less(Head(sorted), x) THEN <<x>> \o sorted
    ELSE <<Head(sorted)>> \o Insert(Tail(sorted), x)

RECURSIVE Sort(_)
\* sorted_field_ids.sort_unstable() on a Vec<u32>
Sort(ids) == IF ids = <<>> THEN <<>> ELSE Insert(Sort(Tail(ids)), Head(ids))

RECURSIVE Dedup(_)
\* sorted_field_ids.dedup(): consecutive repeats removed
Dedup(ids) ==
    IF Len(ids) < 2 THEN ids
    ELSE IF ids[1] = ids[2] THEN Dedup(Tail(ids))
    ELSE <<ids[1]>> \o Dedup(Tail(ids))

\* CopyRanges with the payload of the record handed on whole
CopyRangesWhole(payload, ranges, i) == [err |-> "none", bytes |-> payload]

RECURSIVE CopyRanges(_, _, _)
\* the loop over `ranges` that fills new_payload; a range outside the payload panics
CopyRanges(payload, ranges, i) ==
    IF i > Len(ranges) THEN [err |-> "none", bytes |-> <<>>]
    ELSE IF ranges[i][1] < 0 \/ ranges[i][2] < ranges[i][1] \/ ranges[i][2] > Len(payload)
      THEN [err |-> "panic"]
    ELSE LET rest == CopyRanges(payload, ranges, i + 1)
         IN  IF rest.err # "none" THEN rest
             ELSE [err |-> "none",
                   bytes |-> Slice(payload, ranges[i][1], ranges[i][2]) \o rest.bytes]

\* NextOffset with the neighbour's offset forgotten: every field runs to the payload end
NextOffsetToEnd(record, directory_idx) == Len(record.payload)

\* next_offset: where the field at directory_idx ends in the payload
NextOffset(record, directory_idx) ==
    IF directory_idx + 1 < Len(record.directory)
      THEN record.directory[directory_idx + 2].offset
      ELSE Len(record.payload)

RECURSIVE ProjectLoop(_, _, _, _, _, _, _, _)
\* the while loop of project: the new directory and the ranges to copy.
\* `next_offset - field.offset` and `current_offset += field_length` on u32
\* depend on the build: with overflow checks (a debug build) a next offset
\* below the field's offset panics, and so does a sum from 2^32 on; without
\* them (a release build) the length and the sum wrap and the loop goes on.
ProjectLoop(record, sorted_field_ids, directory_idx, field_ids_idx, current_offset, new_directory, ranges, overflow_checks) ==
    IF ~(directory_idx < Len(record.directory) /\ field_ids_idx < Len(sorted_field_ids))
      THEN [new_directory |-> new_directory, ranges |-> ranges]
    ELSE LET field == record.directory[directory_idx + 1]
         IN  IF field.id = sorted_field_ids[field_ids_idx + 1]
               THEN LET next_offset == NextOffset(record, directory_idx)
                        field_length == U32WrappingSub(next_offset, field.offset)
                    IN  IF overflow_checks /\ U32Less(next_offset, field.offset)
                          THEN [err |-> "panic"]
                        ELSE IF overflow_checks /\ U32AddOverflows(current_offset, field_length)
                          THEN [err |-> "panic"]
                        ELSE ProjectLoop(record, sorted_field_ids, directory_idx + 1,
                                         field_ids_idx + 1,
                                         U32WrappingAdd(current_offset, field_length),
                                         Append(new_directory,
                                                [id |-> field.id,
                                                 type_code |-> field.type_code,
                                                 offset |-> current_offset]),
                                         Append(ranges, <<field.offset, next_offset>>),
                                         overflow_checks)
             ELSE ProjectLoop(record, sorted_field_ids, directory_idx + 1, field_ids_idx,
                              current_offset, new_directory, ranges, overflow_checks)

\* ProjectHeader with the schema id of the record copied whole
ProjectHeaderKeepHash(record) ==
    [flags |-> record.header.flags, schema_id |-> record.header.schema_id]

\* the header of the projected record
ProjectHeader(record) ==
    [flags |-> record.header.flags,
     schema_id |-> [fieldspace_id |-> record.header.schema_id.fieldspace_id,
                    schema_hash |-> SENTINEL_HASH]]

\* Project::project, in a build with or without overflow checks
project(record, field_ids, overflow_checks) ==
    LET sorted_field_ids == Dedup(Sort(field_ids))
        walk == ProjectLoop(record, sorted_field_ids, 0, 0, 0, <<>>, <<>>, overflow_checks)
        new_payload == CopyRanges(record.payload, walk.ranges, 1)
    IN  IF "err" \in DOMAIN walk THEN [err |-> "panic"]
        ELSE IF new_payload.err # "none" THEN [err |-> "panic"]
        ELSE [err |-> "none",
              record |-> [header |-> ProjectHeader(record),
                          directory |-> walk.new_directory,
                          payload |-> new_payload.bytes]]

\* ------------------------------------------------------------------ merge

\* TakeFromSelf with `<` for `<=`: a tie is not taken from self
TakeFromSelfStrict(self, other, self_idx, other_idx) ==
    self_idx < Len(self.directory)
      /\ (other_idx >= Len(other.directory)
            \/ U32Less(self.directory[self_idx + 1].id, other.directory[other_idx + 1].id))

\* the condition of the `if` that takes the next entry from self: `<=` on u32
TakeFromSelf(self, other, self_idx, other_idx) ==
    self_idx < Len(self.directory)
      /\ (other_idx >= Len(other.directory)
            \/ ~U32Less(other.directory[other_idx + 1].id, self.directory[self_idx + 1].id))

\* Option::unwrap of a lookup: a miss panics, as a panic of the lookup does
Unwrap(raw) == IF raw.err # "none" \/ ~raw.some THEN [err |-> "panic"] ELSE raw

\* DuplicatePayload with the option ignored: the duplicate is always kept
DuplicatePayloadAlways(other, other_idx, filter_duplicate_payloads) ==
    Unwrap(get_raw_bytes(other, other.directory[other_idx + 1].id))

\* duplicate_payload on a tie: Some(other's raw bytes, unwrapped) unless the
\* duplicates are filtered
DuplicatePayload(other, other_idx, filter_duplicate_payloads) ==
    IF ~filter_duplicate_payloads
      THEN Unwrap(get_raw_bytes(other, other.directory[other_idx + 1].id))
      ELSE [err |-> "none", some |-> FALSE]

\* CurrentPayload with the bytes taken at the entry's place in the directory:
\* from its offset to the offset of the entry after it
CurrentPayloadAtIndex(record, idx) ==
    LET start == record.directory[idx + 1].offset
        next_offset == IF idx + 1 < Len(record.directory)
                         THEN record.directory[idx + 2].offset
                         ELSE Len(record.payload)
    IN  IF start < 0 \/ next_offset < start \/ next_offset > Len(record.payload)
          THEN [err |-> "panic"]
        ELSE [err |-> "none", some |-> TRUE,
              bytes |-> Slice(record.payload, start, next_offset)]

\* current_payload: the raw bytes of the current entry, looked up by its id in
\* the record it comes from
CurrentPayload(record, idx) == get_raw_bytes(record, record.directory[idx + 1].id)

\* NewEntry with the offset not adjusted: the source entry's offset is copied
NewEntryKeepOffset(current_entry, current_offset) ==
    [id |-> current_entry.id, type_code |-> current_entry.type_code,
     offset |-> current_entry.offset]

\* the adjusted directory entry pushed for the current entry
NewEntry(current_entry, current_offset) ==
    [id |-> current_entry.id, type_code |-> current_entry.type_code,
     offset |-> 0 + current_offset]

\* OffsetDelta with the duplicate's length not added
OffsetDeltaCurrentOnly(current_payload, duplicate_payload) == Len(current_payload)

\* offset_delta: the bytes appended for the current entry, a u32 sum
OffsetDelta(current_payload, duplicate_payload) ==
    U32WrappingAdd(Len(current_payload), Len(duplicate_payload))

\* MergeHeader with the schema id and flags of the other record
MergeHeaderFromOther(self, other) ==
    [flags |-> other.header.flags, schema_id |-> other.header.schema_id]

\* the header of the merged record
MergeHeader(self, other) ==
    [flags |-> self.header.flags, schema_id |-> self.header.schema_id]

RECURSIVE MergeLoop(_, _, _, _, _, _, _, _, _)
\* the while loop of merge_with_opts.  `offset_delta += payload.len() as u32`
\* and `current_offset += offset_delta` on u32 depend on the build: with
\* overflow checks (a debug build) a sum from 2^32 on panics, without them (a
\* release build) it wraps and the loop goes on.
MergeLoop(self, other, filter_duplicate_payloads, self_idx, other_idx, current_offset, new_directory, new_payload, overflow_checks) ==
    IF ~(self_idx < Len(self.directory) \/ other_idx < Len(other.directory))
      THEN [err |-> "none", new_directory |-> new_directory, new_payload |-> new_payload]
    ELSE LET from_self == TakeFromSelf(self, other, self_idx, other_idx)
             tie == from_self /\ other_idx < Len(other.directory)
                      /\ self.directory[self_idx + 1].id = other.directory[other_idx + 1].id
             current_entry == IF from_self THEN self.directory[self_idx + 1]
                              ELSE other.directory[other_idx + 1]
             duplicate_payload ==
                 IF tie THEN DuplicatePayload(other, other_idx, filter_duplicate_payloads)
                 ELSE [err |-> "none", some |-> FALSE]
             current_payload == IF from_self THEN CurrentPayload(self, self_idx)
                                ELSE CurrentPayload(other, other_idx)
             duplicate_bytes == IF duplicate_payload.some THEN duplicate_payload.bytes
                                ELSE <<>>
             offset_delta == OffsetDelta(current_payload.bytes, duplicate_bytes)
         IN  IF duplicate_payload.err # "none"
                  \/ current_payload.err # "none" \/ ~current_payload.some
               THEN [err |-> "panic"]
             ELSE IF overflow_checks
                       /\ \/ U32AddOverflows(Len(current_payload.bytes), Len(duplicate_bytes))
                          \/ U32AddOverflows(current_offset, offset_delta)
               THEN [err |-> "panic"]
             ELSE MergeLoop(self, other, filter_duplicate_payloads,
                            IF from_self THEN self_idx + 1 ELSE self_idx,
                            IF tie \/ ~from_self THEN other_idx + 1 ELSE other_idx,
                            U32WrappingAdd(current_offset, offset_delta),
                            Append(new_directory, NewEntry(current_entry, current_offset)),
                            new_payload \o current_payload.bytes \o duplicate_bytes,
                            overflow_checks)

\* Merge::merge_with_opts, in a build with or without overflow checks
merge_with_opts(self, other, filter_duplicate_payloads, overflow_checks) ==
    LET m == MergeLoop(self, other, filter_duplicate_payloads, 0, 0, 0, <<>>, <<>>,
                       overflow_checks)
    IN  IF m.err # "none" THEN [err |-> "panic"]
        ELSE [err |-> "none",
              record |-> [header |-> MergeHeader(self, other),
                          directory |-> m.new_directory,
                          payload |-> m.new_payload]]

\* Merge::merge: the default options keep the duplicate payloads
merge(self, other, overflow_checks) == merge_with_opts(self, other, FALSE, overflow_checks)

\* ---------------------------------------------------------------- builder

\* ImprintWriter::new
ImprintWriterNew(schema_id) == [schema_id |-> schema_id, fields |-> <<>>]

\* ImprintWriter::add_field: BTreeMap::insert replaces the value of a present id.
\* The map is kept as the sequence of its <<id, value>> pairs in ascending id
\* order, the order of the u32 keys.
\* an insert that puts every pair in front, whatever the map holds
BTreeInsertFront(fields, id, value) == << <<id, value>> >> \o fields

RECURSIVE BTreeInsertKeepFirst(_, _, _)
\* an insert that keeps the value a present id already has
BTreeInsertKeepFirst(fields, id, value) ==
    IF fields = <<>> THEN << <<id, value>> >>
    ELSE IF Head(fields)[1] = id THEN fields
    ELSE IF U32Less(id, Head(fields)[1]) THEN << <<id, value>> >> \o fields
    ELSE <<Head(fields)>> \o BTreeInsertKeepFirst(Tail(fields), id, value)

RECURSIVE BTreeInsert(_, _, _)
BTreeInsert(fields, id, value) ==
    IF fields = <<>> THEN << <<id, value>> >>
    ELSE IF Head(fields)[1] = id THEN << <<id, value>> >> \o Tail(fields)
    ELSE IF U32Less(id, Head(fields)[1]) THEN << <<id, value>> >> \o fields
    ELSE <<Head(fields)>> \o BTreeInsert(Tail(fields), id, value)

add_field(writer, id, value) ==
    [writer EXCEPT !.fields = BTreeInsert(writer.fields, id, value)]

RECURSIVE BuildLoop(_, _, _, _)
\* the loop of build over the map in ascending id order
BuildLoop(fields, i, directory, payload) ==
    IF i > Len(fields) THEN [err |-> "none", directory |-> directory, payload |-> payload]
    ELSE LET w == WriteValue(fields[i][2], payload)
         IN  IF w.err # "none" THEN [err |-> w.err]
             ELSE BuildLoop(fields, i + 1,
                            Append(directory,
                                   [id |-> fields[i][1],
                                    type_code |-> type_code(fields[i][2]),
                                    offset |-> Len(payload)]),
                            w.buf)

\* ImprintWriter::build
build(writer) ==
    LET b == BuildLoop(writer.fields, 1, <<>>, <<>>)
    IN  IF b.err # "none" THEN [err |-> b.err]
        ELSE [err |-> "none",
              record |-> [header |-> [flags |-> FIELD_DIRECTORY,
                                      schema_id |-> writer.schema_id],
                          directory |-> b.directory,
                          payload |-> b.payload]]

\* ------------------------------------------------------- the client's run

(***************************************************************************)
(* A client builds a record A with a writer, or parses it from bytes it    *)
(* was handed; it then either projects A, or builds a second record B and  *)
(* merges A with B under one or both options; it may write the latest      *)
(* result out and read it back.                                            *)
(***************************************************************************)
VARIABLES
    pc,         \* where the client is in its run
    writer,     \* the ImprintWriter being filled, or Unset
    recA,       \* Result of building or parsing the first record, or Unset
    originA,    \* "built" or "read": how recA was obtained
    fieldsA,    \* the map of the writer that built recA
    recB,       \* Result of building the second record, or Unset
    fieldsB,    \* the map of the writer that built recB
    ids,        \* the id list handed to project
    projected,  \* Result of project(recA, ids), or Unset
    merged,     \* filter_duplicate_payloads -> Result of the merge, or Unset
    target,     \* which record was written: "A", "projected", "keep", "filter"
    wire,       \* the buffer the record was written to
    reread,     \* Result of reading wire back, or Unset
    recC,       \* Result of building a third record, or Unset
    option,     \* filter_duplicate_payloads of the regrouped merges
    mergedAB,   \* Result of merging recA with recB, or Unset
    mergedBC,   \* Result of merging recB with recC, or Unset
    left,       \* Result of merging mergedAB with recC, or Unset
    right,      \* Result of merging recA with mergedBC, or Unset
    calls,      \* the <<id, value>> arguments of the add_field calls on a writer, in order
    call,       \* the codec function that was applied to an input, or "none"
    input,      \* the argument of that function
    output      \* what the function returned

\* the variables of the regrouped merges
assocVars == <<recC, option, mergedAB, mergedBC, left, right>>

\* the variables of a writer's call history and of the codec functions
codecVars == <<calls, call, input, output>>

\* the variables of the results of a client's run
resultVars == <<ids, projected, merged, target, wire, reread>>

vars ==
    <<pc, writer, recA, originA, fieldsA, recB, fieldsB, ids, projected, merged, target, wire,
      reread, recC, option, mergedAB, mergedBC, left, right, calls, call, input, output>>

Unset == [err |-> "unset"]

IsOk(result) == result.err = "none"

\* the schema ids handed to ImprintWriter::new and found in the headers that
\* are parsed: they differ in both parts, so that a header taken from the
\* wrong record shows in either
SchemaA == [fieldspace_id |-> 1, schema_hash |-> SENTINEL_HASH]
SchemaB == [fieldspace_id |-> 2, schema_hash |-> CAFEBABE]

SchemaIds == { SchemaA, SchemaB }

\* 0x80000000 as a 32-bit pattern: the least id whose pattern is negative
HighId == -2147483647 - 1

\* the field ids of the client: small ones and one from 2^31 on, which the
\* order of u32 puts last
Ids == (1..(MaxId - 1)) \cup {HighId}

\* the capacities the allocator grants in a run: room for one value only, or
\* for any number of them (0xffffffff)
AllocLimits == {1, -1}

Null == [t |-> "Null", v |-> <<>>]
Bool(b) == [t |-> "Bool", v |-> b]
String(bytes) == [t |-> "String", v |-> bytes]
Row(record) == [t |-> "Row", v |-> record]
Array(values) == [t |-> "Array", v |-> values]

\* the record {1: Bool(true)} of fieldspace 2, used as a nested row
InnerRecord ==
    build(add_field(ImprintWriterNew([fieldspace_id |-> 2, schema_hash |-> CAFEBABE]),
                    1, Bool(TRUE))).record

\* the values the client stores: a zero-length one, a fixed-width one and a
\* nested record
FieldValues == { Null, Bool(TRUE), Row(InnerRecord) }

\* the inputs the client parses: records without fields, with the directory
\* flag set or clear, with and without bytes after the directory
WireInputs ==
    { WriteRecord([header |-> [flags |-> f, schema_id |-> s], directory |-> <<>>,
                   payload |-> p]) :
        f \in {0, FIELD_DIRECTORY}, s \in SchemaIds, p \in {<<>>, <<1>>} }

RECURSIVE SeqsUpTo(_, _)
\* the sequences over S of length at most n
SeqsUpTo(S, n) ==
    IF n = 0 THEN {<<>>}
    ELSE LET shorter == SeqsUpTo(S, n - 1)
         IN  shorter \cup {Append(q, x) : q \in shorter, x \in S}

\* the id lists handed to project: any order, repeats, the least and the
\* greatest id of Ids, an id below (0) and an id above Ids (0xffffffff)
IdLists == SeqsUpTo({0, 1, HighId, -1}, MaxIdsLen)

\* fields held by the records built so far
FieldsBuilt == IF IsOk(recA) /\ originA = "built" THEN Len(recA.record.directory) ELSE 0

Init ==
    /\ pc = "start"
    /\ writer = Unset
    /\ recA = Unset
    /\ originA = "none"
    /\ fieldsA = <<>>
    /\ recB = Unset
    /\ fieldsB = <<>>
    /\ ids = <<>>
    /\ projected = Unset
    /\ merged = [f \in BOOLEAN |-> Unset]
    /\ target = "none"
    /\ wire = <<>>
    /\ reread = Unset
    /\ recC = Unset
    /\ option = FALSE
    /\ mergedAB = Unset
    /\ mergedBC = Unset
    /\ left = Unset
    /\ right = Unset
    /\ calls = <<>>
    /\ call = "none"
    /\ input = <<>>
    /\ output = Unset

\* ImprintWriter::new(schema_id), for the first and for the second record; the
\* second record is built under the schema id SchemaB, the first under either
NewWriter(schema_id) ==
    /\ pc \in {"start", "haveA"}
    /\ pc = "haveA" => (IsOk(recA) /\ schema_id = SchemaB)
    /\ writer' = ImprintWriterNew(schema_id)
    /\ pc' = IF pc = "start" THEN "writingA" ELSE "writingB"
    /\ UNCHANGED <<recA, originA, fieldsA, recB, fieldsB, ids, projected, merged, target, wire, reread>>
    /\ UNCHANGED assocVars
    /\ UNCHANGED codecVars

\* writer.add_field(id, value)
AddField(id, value) ==
    /\ pc \in {"writingA", "writingB"}
    /\ \/ \E i \in 1..Len(writer.fields) : writer.fields[i][1] = id
       \/ FieldsBuilt + Len(writer.fields) < MaxFields
    /\ writer' = add_field(writer, id, value)
    /\ UNCHANGED <<pc, recA, originA, fieldsA, recB, fieldsB, ids, projected, merged, target, wire, reread>>
    /\ UNCHANGED assocVars
    /\ UNCHANGED codecVars

\* writer.build(): the writer is consumed
Build ==
    /\ pc \in {"writingA", "writingB"}
    /\ IF pc = "writingA"
         THEN /\ recA' = build(writer)
              /\ fieldsA' = writer.fields
              /\ originA' = "built"
              /\ pc' = "haveA"
              /\ UNCHANGED <<recB, fieldsB>>
         ELSE /\ recB' = build(writer)
              /\ fieldsB' = writer.fields
              /\ pc' = "haveAB"
              /\ UNCHANGED <<recA, originA, fieldsA>>
    /\ writer' = Unset
    /\ UNCHANGED <<ids, projected, merged, target, wire, reread>>
    /\ UNCHANGED assocVars
    /\ UNCHANGED codecVars

\* ImprintRecord::read(bytes) of bytes handed to the client
ReadInput(bytes) ==
    /\ pc = "start"
    /\ recA' = ReadRecord(bytes)
    /\ originA' = "read"
    /\ pc' = "haveA"
    /\ UNCHANGED <<writer, fieldsA, recB, fieldsB, ids, projected, merged, target, wire, reread>>
    /\ UNCHANGED assocVars
    /\ UNCHANGED codecVars

\* recA.project(field_ids), the library built with or without overflow checks
Project ==
    /\ pc = "haveA"
    /\ IsOk(recA)
    /\ \E field_ids \in IdLists, overflow_checks \in BOOLEAN :
         /\ ids' = field_ids
         /\ projected' = project(recA.record, field_ids, overflow_checks)
    /\ pc' = "projected"
    /\ UNCHANGED <<writer, recA, originA, fieldsA, recB, fieldsB, merged, target, wire, reread>>
    /\ UNCHANGED assocVars
    /\ UNCHANGED codecVars

\* recA.merge_with_opts(&recB, MergeOptions { filter_duplicate_payloads }), the
\* library built with or without overflow checks
Merge(filter_duplicate_payloads) ==
    /\ pc \in {"haveAB", "merged"}
    /\ IsOk(recA) /\ IsOk(recB)
    /\ merged[filter_duplicate_payloads] = Unset
    /\ \E overflow_checks \in BOOLEAN :
         merged' = [merged EXCEPT ![filter_duplicate_payloads] =
                      merge_with_opts(recA.record, recB.record, filter_duplicate_payloads,
                                      overflow_checks)]
    /\ pc' = "merged"
    /\ UNCHANGED <<writer, recA, originA, fieldsA, recB, fieldsB, ids, projected, target, wire, reread>>
    /\ UNCHANGED assocVars
    /\ UNCHANGED codecVars

\* the record a Write of `which` serializes
Written(which) ==
    CASE which = "A"         -> recA
      [] which = "projected" -> projected
      [] which = "keep"      -> merged[FALSE]
      [] OTHER               -> merged[TRUE]

\* record.write(&mut buf) into an empty buffer
Write(which) ==
    /\ \/ pc = "haveA" /\ which = "A"
       \/ pc = "projected" /\ which = "projected"
       \/ pc = "merged" /\ which \in {"keep", "filter"}
    /\ IsOk(Written(which))
    /\ target' = which
    /\ wire' = WriteRecord(Written(which).record)
    /\ pc' = "written"
    /\ UNCHANGED <<writer, recA, originA, fieldsA, recB, fieldsB, ids, projected, merged, reread>>
    /\ UNCHANGED assocVars
    /\ UNCHANGED codecVars

\* ImprintRecord::read(buf.freeze())
ReadBack ==
    /\ pc = "written"
    /\ reread' = ReadRecord(wire)
    /\ pc' = "reread"
    /\ UNCHANGED <<writer, recA, originA, fieldsA, recB, fieldsB, ids, projected, merged, target, wire>>
    /\ UNCHANGED assocVars
    /\ UNCHANGED codecVars

Next ==
    \/ \E s \in SchemaIds : NewWriter(s)
    \/ \E id \in Ids, value \in FieldValues : AddField(id, value)
    \/ Build
    \/ \E bytes \in WireInputs : ReadInput(bytes)
    \/ Project
    \/ \E f \in BOOLEAN : Merge(f)
    \/ \E which \in {"A", "projected", "keep", "filter"} : Write(which)
    \/ ReadBack

Spec == Init /\ [][Next]_vars

\* ------------------------------------------------------ regrouped merges

(***************************************************************************)
(* Three records are merged in both groupings, merge(merge(A, B), C) and   *)
(* merge(A, merge(B, C)), all four merges under the same option.  B and C  *)
(* are built; A is built, or parsed from bytes whose directory lists one   *)
(* id twice, which ImprintRecord::read accepts.                            *)
(***************************************************************************)

\* number of fields the built records of one regrouping hold together
MaxAssocFields == 2

\* the ids of the fields of the three records: the least and the greatest id
AssocIds == {1, HighId}

\* the values of the fields of the three records: lengths 0, 1 and 3
AssocValues == { Null, Bool(TRUE), String(<<104, 105>>) }

RECURSIVE WriterMaps(_)
\* the maps a writer holds after at most n calls of add_field
WriterMaps(n) ==
    IF n = 0 THEN {<<>>}
    ELSE LET fewer == WriterMaps(n - 1)
         IN  fewer \cup {BTreeInsert(m, id, value) :
                           m \in fewer, id \in AssocIds, value \in AssocValues}

\* the record a writer of the given schema id builds from a map
Built(schema_id, fields) == build([schema_id |-> schema_id, fields |-> fields])

\* the wire forms of records that hold two Bool fields under one id
RepeatedIdWires ==
    { WriteRecord([header |-> [flags |-> FIELD_DIRECTORY, schema_id |-> SchemaA],
                   directory |-> << [id |-> i, type_code |-> "Bool", offset |-> 0],
                                    [id |-> i, type_code |-> "Bool", offset |-> 1] >>,
                   payload |-> <<1, 0>>]) : i \in AssocIds }

\* the records parsed from those wire forms
RepeatedIdRecords == { ReadRecord(bytes).record : bytes \in RepeatedIdWires }

InitAssoc ==
    /\ pc = "built3"
    /\ writer = Unset
    /\ \/ /\ originA = "built"
          /\ fieldsA \in WriterMaps(MaxAssocFields)
          /\ recA = Built(SchemaA, fieldsA)
       \/ /\ originA = "read"
          /\ fieldsA = <<>>
          /\ \E bytes \in RepeatedIdWires : recA = ReadRecord(bytes)
    /\ fieldsB \in WriterMaps(MaxAssocFields - Len(fieldsA))
    /\ \E fieldsC \in WriterMaps(MaxAssocFields - Len(fieldsA) - Len(fieldsB)) :
         recC = Built(SchemaB, fieldsC)
    /\ recB = Built(SchemaB, fieldsB)
    /\ option \in BOOLEAN
    /\ ids = <<>>
    /\ projected = Unset
    /\ merged = [f \in BOOLEAN |-> Unset]
    /\ target = "none"
    /\ wire = <<>>
    /\ reread = Unset
    /\ mergedAB = Unset
    /\ mergedBC = Unset
    /\ left = Unset
    /\ right = Unset
    /\ calls = <<>>
    /\ call = "none"
    /\ input = <<>>
    /\ output = Unset

\* recA.merge_with_opts(&recB, option)
MergeAB ==
    /\ pc = "built3"
    /\ \E overflow_checks \in BOOLEAN :
         mergedAB' = merge_with_opts(recA.record, recB.record, option, overflow_checks)
    /\ pc' = "ab"
    /\ UNCHANGED <<writer, recA, originA, fieldsA, recB, fieldsB, recC, option>>
    /\ UNCHANGED <<mergedBC, left, right>>
    /\ UNCHANGED resultVars
    /\ UNCHANGED codecVars

\* recB.merge_with_opts(&recC, option)
MergeBC ==
    /\ pc = "ab"
    /\ \E overflow_checks \in BOOLEAN :
         mergedBC' = merge_with_opts(recB.record, recC.record, option, overflow_checks)
    /\ pc' = "bc"
    /\ UNCHANGED <<writer, recA, originA, fieldsA, recB, fieldsB, recC, option>>
    /\ UNCHANGED <<mergedAB, left, right>>
    /\ UNCHANGED resultVars
    /\ UNCHANGED codecVars

\* mergedAB.merge_with_opts(&recC, option)
MergeLeft ==
    /\ pc = "bc"
    /\ IsOk(mergedAB)
    /\ \E overflow_checks \in BOOLEAN :
         left' = merge_with_opts(mergedAB.record, recC.record, option, overflow_checks)
    /\ pc' = "left"
    /\ UNCHANGED <<writer, recA, originA, fieldsA, recB, fieldsB, recC, option>>
    /\ UNCHANGED <<mergedAB, mergedBC, right>>
    /\ UNCHANGED resultVars
    /\ UNCHANGED codecVars

\* recA.merge_with_opts(&mergedBC, option)
MergeRight ==
    /\ pc = "left"
    /\ IsOk(mergedBC)
    /\ \E overflow_checks \in BOOLEAN :
         right' = merge_with_opts(recA.record, mergedBC.record, option, overflow_checks)
    /\ pc' = "regrouped"
    /\ UNCHANGED <<writer, recA, originA, fieldsA, recB, fieldsB, recC, option>>
    /\ UNCHANGED <<mergedAB, mergedBC, left>>
    /\ UNCHANGED resultVars
    /\ UNCHANGED codecVars

NextAssoc == MergeAB \/ MergeBC \/ MergeLeft \/ MergeRight

SpecAssoc == InitAssoc /\ [][NextAssoc]_vars

\* ------------------------------------------------------------- properties

\* the ids of a record's directory, in directory order
DirIds(record) == [k \in 1..Len(record.directory) |-> record.directory[k].id]

IdSet(record) == {record.directory[k].id : k \in 1..Len(record.directory)}

Range(seq) == {seq[k] : k \in 1..Len(seq)}

RECURSIVE Ascending(_)
\* the ascending sequence of a finite set of u32 patterns, in the order of u32
Ascending(S) ==
    IF S = {} THEN <<>>
    ELSE LET least == CHOOSE x \in S : \A y \in S : ~U32Less(y, x)
         IN  <<least>> \o Ascending(S \ {least})

\* the ids of a directory ascend strictly in the order of u32
StrictlyAscending(directory) ==
    \A k \in 1..(Len(directory) - 1) : U32Less(directory[k].id, directory[k + 1].id)

\* the directory entry of a record for an id it holds
EntryOf(record, id) ==
    record.directory[CHOOSE k \in 1..Len(record.directory) : record.directory[k].id = id]

\* the value a writer's map holds for an id
FieldValue(fields, id) == fields[CHOOSE k \in 1..Len(fields) : fields[k][1] = id][2]

\* the length of a value's wire form
WireLen(value) == Len(WriteValue(value, <<>>).buf)

RECURSIVE SumTo(_, _)
\* f[1] + ... + f[n]
SumTo(f, n) == IF n = 0 THEN 0 ELSE f[n] + SumTo(f, n - 1)

Shared == IdSet(recA.record) \cap IdSet(recB.record)

Merged(f) == merged[f].record

BothMerged == IsOk(merged[FALSE]) /\ IsOk(merged[TRUE])

\* C1: the directory ids of project(R, ids) are exactly the ascending sequence
\* of the requested ids that R holds; an absent id hides no present one.
C1_ProjectSelectsRequested ==
    pc = "projected" =>
        /\ IsOk(projected)
        /\ DirIds(projected.record) = Ascending(Range(ids) \cap IdSet(recA.record))

\* C2: every field present in a projection has the raw bytes and the type code
\* it has in R, and projecting the single id of a field of R keeps that field.
C2_ProjectPreservesBytes ==
    pc = "projected" =>
        /\ IsOk(projected)
        /\ \A id \in IdSet(projected.record) :
             /\ id \in IdSet(recA.record)
             /\ get_raw_bytes(projected.record, id) = get_raw_bytes(recA.record, id)
             /\ get_raw_bytes(projected.record, id).some
             /\ EntryOf(projected.record, id).type_code = EntryOf(recA.record, id).type_code
        /\ (Len(ids) = 1 /\ ids[1] \in IdSet(recA.record))
             => ids[1] \in IdSet(projected.record)

\* a single field of a record of several fields, one of them with an id from
\* 2^31 on, was projected, and it is not the last one of the payload
C2_Witness ==
    /\ pc = "projected" /\ IsOk(projected)
    /\ Len(recA.record.directory) >= 2
    /\ HighId \in IdSet(recA.record)
    /\ ids = <<recA.record.directory[1].id>>
    /\ IdSet(projected.record) = {ids[1]}
    /\ Len(get_raw_bytes(projected.record, ids[1]).bytes) > 0

\* C3: merge is left-wins on decoded values: an id of A decodes as in A, an id
\* only in B decodes as in B, under either option and for every value kind.
C3_MergeLeftWins ==
    \A f \in BOOLEAN :
        merged[f] # Unset =>
            /\ IsOk(merged[f])
            /\ \A id \in IdSet(recA.record), alloc_limit \in AllocLimits :
                 get_value(Merged(f), id, alloc_limit) = get_value(recA.record, id, alloc_limit)
            /\ \A id \in IdSet(recB.record) \ IdSet(recA.record), alloc_limit \in AllocLimits :
                 get_value(Merged(f), id, alloc_limit) = get_value(recB.record, id, alloc_limit)

\* C4: the merged directory is strictly ascending by id and has one entry per
\* id of A or B.
C4_MergeDirectory ==
    \A f \in BOOLEAN :
        merged[f] # Unset =>
            /\ IsOk(merged[f])
            /\ StrictlyAscending(Merged(f).directory)
            /\ Len(Merged(f).directory)
                 = Cardinality(IdSet(recA.record) \cup IdSet(recB.record))
            /\ Shared = {} =>
                 Len(Merged(f).directory)
                   = Len(recA.record.directory) + Len(recB.record.directory)

\* the records share an id and one of them has a field of its own, with an id
\* from 2^31 on, so the merged directory is shorter than the two directories
\* together and ends with that id
C4_Witness ==
    /\ BothMerged
    /\ Shared # {}
    /\ IdSet(recA.record) # IdSet(recB.record)
    /\ Len(Merged(FALSE).directory) = 2
    /\ Merged(FALSE).directory[2].id = HighId
    /\ Len(recA.record.directory) + Len(recB.record.directory) = 3

\* the wire length of the winning field of the k-th merged entry
WinnerLen(f, k) ==
    LET id == Merged(f).directory[k].id
    IN  IF id \in IdSet(recA.record) THEN WireLen(FieldValue(fieldsA, id))
        ELSE WireLen(FieldValue(fieldsB, id))

\* the wire length of B's losing field kept behind the k-th merged entry
RetainedLen(f, k) ==
    LET id == Merged(f).directory[k].id
    IN  IF ~f /\ id \in Shared THEN WireLen(FieldValue(fieldsB, id)) ELSE 0

\* C5 as stated: on builder-built inputs, under both options, each merged
\* entry's offset is the sum of the wire lengths of the fields of the earlier
\* entries and the payload length is the sum over all entries.
C5_MergeOffsetsCumulative ==
    \A f \in BOOLEAN :
        (originA = "built" /\ IsOk(merged[f])) =>
            LET n == Len(Merged(f).directory)
                len == [k \in 1..n |-> WinnerLen(f, k)]
            IN  /\ \A k \in 1..n : Merged(f).directory[k].offset = SumTo(len, k - 1)
                /\ Len(Merged(f).payload) = SumTo(len, n)

\* C5 amended: the sums also count, for every earlier entry whose id both
\* records hold, the wire length of B's field when the duplicates are kept;
\* so invariants 2 and 6 hold under filter_duplicate_payloads = true.
C5_MergeOffsetsCountRetained ==
    \A f \in BOOLEAN :
        (originA = "built" /\ IsOk(merged[f])) =>
            LET n == Len(Merged(f).directory)
                len == [k \in 1..n |-> WinnerLen(f, k) + RetainedLen(f, k)]
                won == [k \in 1..n |-> WinnerLen(f, k)]
            IN  /\ \A k \in 1..n : Merged(f).directory[k].offset = SumTo(len, k - 1)
                /\ Len(Merged(f).payload) = SumTo(len, n)
                /\ f => /\ \A k \in 1..n : Merged(f).directory[k].offset = SumTo(won, k - 1)
                        /\ Len(Merged(f).payload) = SumTo(won, n)

\* a kept duplicate with bytes lies before a later entry
C5_Witness ==
    /\ originA = "built" /\ IsOk(merged[FALSE])
    /\ \E k \in 1..(Len(Merged(FALSE).directory) - 1) : RetainedLen(FALSE, k) > 0

\* C6 as stated: the filtered payload is no longer than the unfiltered one, and
\* as long exactly when A and B share no id.
C6_FilterEqualIffDisjoint ==
    BothMerged =>
        /\ Len(Merged(TRUE).payload) <= Len(Merged(FALSE).payload)
        /\ Len(Merged(TRUE).payload) = Len(Merged(FALSE).payload) <=> Shared = {}

\* C6 amended: as long exactly when every shared id has a zero-length field in B.
C6_FilterEqualIffNothingRetained ==
    BothMerged =>
        /\ Len(Merged(TRUE).payload) <= Len(Merged(FALSE).payload)
        /\ Len(Merged(TRUE).payload) = Len(Merged(FALSE).payload)
             <=> \A id \in Shared : Len(get_raw_bytes(recB.record, id).bytes) = 0

\* the records share an id whose field in B is Null
C6_Witness ==
    /\ BothMerged
    /\ \E id \in Shared : EntryOf(recB.record, id).type_code = "Null"
    /\ Len(Merged(TRUE).payload) = Len(Merged(FALSE).payload)

\* B's bytes kept before the k-th entry of the unfiltered merge
RetainedBefore(k) ==
    SumTo([j \in 1..Len(Merged(FALSE).directory) |->
             IF Merged(FALSE).directory[j].id \in Shared
               THEN Len(get_raw_bytes(recB.record, Merged(FALSE).directory[j].id).bytes)
               ELSE 0],
          k - 1)

\* C7 as stated: when A and B share an id the two options give the same
\* directory and the filtered payload is strictly smaller.
C7_FilterSameDirectory ==
    (BothMerged /\ Shared # {}) =>
        /\ Merged(TRUE).directory = Merged(FALSE).directory
        /\ Len(Merged(TRUE).payload) < Len(Merged(FALSE).payload)

\* C7 amended: the two directories list the same ids and type codes; each
\* unfiltered offset is the filtered one plus the bytes of B kept before it;
\* the filtered payload is smaller by all the bytes of B that were kept.
C7_FilterSameFieldsShiftedOffsets ==
    (BothMerged /\ Shared # {}) =>
        LET n == Len(Merged(FALSE).directory)
        IN  /\ Len(Merged(TRUE).directory) = n
            /\ \A k \in 1..n :
                 /\ Merged(TRUE).directory[k].id = Merged(FALSE).directory[k].id
                 /\ Merged(TRUE).directory[k].type_code = Merged(FALSE).directory[k].type_code
                 /\ Merged(FALSE).directory[k].offset
                      = Merged(TRUE).directory[k].offset + RetainedBefore(k)
            /\ Len(Merged(FALSE).payload) = Len(Merged(TRUE).payload) + RetainedBefore(n + 1)

\* a shared id whose field in B has bytes is followed by another entry
C7_Witness ==
    /\ BothMerged /\ Shared # {}
    /\ Merged(TRUE).directory # Merged(FALSE).directory
    /\ Len(Merged(TRUE).payload) < Len(Merged(FALSE).payload)

\* C8: the merged header has the flags and the schema id of A, whatever B's are.
C8_MergeHeaderFromA ==
    \A f \in BOOLEAN :
        merged[f] # Unset =>
            /\ IsOk(merged[f])
            /\ Merged(f).header.flags = recA.record.header.flags
            /\ Merged(f).header.schema_id = recA.record.header.schema_id

\* B's flags and schema id both differ from A's
C8_Witness ==
    /\ BothMerged
    /\ recB.record.header.flags # recA.record.header.flags
    /\ recB.record.header.schema_id.fieldspace_id # recA.record.header.schema_id.fieldspace_id
    /\ recB.record.header.schema_id.schema_hash # recA.record.header.schema_id.schema_hash

\* the two groupings of the merges of a, b and c under option f succeed and
\* return different records, in a build with and in a build without overflow
\* checks, and two of the three records hold the same id
Regroups(a, b, c, f) ==
    /\ (IdSet(a) \cap IdSet(b)) \cup (IdSet(a) \cap IdSet(c))
         \cup (IdSet(b) \cap IdSet(c)) # {}
    /\ \A overflow_checks \in BOOLEAN :
         LET ab == merge_with_opts(a, b, f, overflow_checks)
             bc == merge_with_opts(b, c, f, overflow_checks)
         IN  /\ IsOk(ab) /\ IsOk(bc)
             /\ LET l == merge_with_opts(ab.record, c, f, overflow_checks)
                    r == merge_with_opts(a, bc.record, f, overflow_checks)
                IN  IsOk(l) /\ IsOk(r) /\ l.record # r.record

\* C9: there are records A, B, C, two of which hold the same field id, that
\* merge to different records in the two groupings merge(merge(A, B), C) and
\* merge(A, merge(B, C)): merge is not associative.  They are looked for among
\* a parsed A that holds an id twice with a built B of one field of that id
\* and a C without fields, and among the triples of built records.
C9_MergeNotAssociative ==
    \/ \E a \in RepeatedIdRecords, v \in AssocValues, f \in BOOLEAN :
         Regroups(a, Built(SchemaB, << <<a.directory[1].id, v>> >>).record,
                  Built(SchemaB, <<>>).record, f)
    \/ \E fa \in WriterMaps(MaxAssocFields) :
         \E fb \in WriterMaps(MaxAssocFields - Len(fa)) :
           \E fc \in WriterMaps(MaxAssocFields - Len(fa) - Len(fb)) :
             \E f \in BOOLEAN :
               Regroups(Built(SchemaA, fa).record, Built(SchemaB, fb).record,
                        Built(SchemaB, fc).record, f)

\* A holds an id twice and B holds that id too; both groupings were merged
\* and the two results differ in their payloads
C9_Witness ==
    /\ pc = "regrouped"
    /\ IsOk(left) /\ IsOk(right)
    /\ Len(recA.record.directory) = 2
    /\ recA.record.directory[1].id = recA.record.directory[2].id
    /\ recA.record.directory[1].id \in IdSet(recB.record)
    /\ left.record.payload # right.record.payload

\* C10: reading the bytes written for a record the library produced (built,
\* projected or merged) yields a record with the same flags, schema id,
\* directory entries and payload bytes.
C10_WriteReadRoundTrip ==
    pc = "reread" =>
        /\ IsOk(reread)
        /\ reread.record.header.flags = Written(target).record.header.flags
        /\ reread.record.header.schema_id = Written(target).record.header.schema_id
        /\ reread.record.directory = Written(target).record.directory
        /\ reread.record.payload = Written(target).record.payload

\* C11: the byte count ImprintRecord::read returns with the record is the full
\* length of the input: header, directory count, entries and payload.
C11_ReadReportsInputLength ==
    (pc = "reread" /\ IsOk(reread)) => reread.n = Len(wire)

\* ------------------------------------------------------- the writer's run

(***************************************************************************)
(* A client creates a writer, calls add_field a number of times, with ids  *)
(* repeated and in any order, and builds.  The calls are remembered in the *)
(* order they were made.  Or the client writes one value by itself.        *)
(***************************************************************************)

\* number of add_field calls on one writer
MaxCalls == 3

\* the ids of the calls: the least and the greatest id
WriterIds == {1, HighId}

\* the values of the calls: lengths 0, 1 and 3, and arrays that are empty, of
\* one element, of two elements of one kind, of two kinds, and of an empty array
WriterValues ==
    { Null, Bool(TRUE), String(<<104, 105>>),
      Array(<<>>), Array(<<Bool(TRUE)>>), Array(<<Bool(TRUE), Bool(FALSE)>>),
      Array(<<Bool(TRUE), Null>>), Array(<<Array(<<>>)>>) }

\* ImprintWriter::new(schema_id)
WriterNew(schema_id) ==
    /\ pc = "start"
    /\ writer' = ImprintWriterNew(schema_id)
    /\ calls' = <<>>
    /\ pc' = "filling"
    /\ UNCHANGED <<recA, originA, fieldsA, recB, fieldsB, call, input, output>>
    /\ UNCHANGED resultVars
    /\ UNCHANGED assocVars

\* writer.add_field(id, value), which returns Ok(())
WriterAddField(id, value) ==
    /\ pc = "filling"
    /\ Len(calls) < MaxCalls
    /\ writer' = add_field(writer, id, value)
    /\ calls' = Append(calls, <<id, value>>)
    /\ output' = [err |-> "none"]
    /\ UNCHANGED <<pc, recA, originA, fieldsA, recB, fieldsB, call, input>>
    /\ UNCHANGED resultVars
    /\ UNCHANGED assocVars

\* writer.build()
WriterBuild ==
    /\ pc = "filling"
    /\ recA' = build(writer)
    /\ fieldsA' = writer.fields
    /\ originA' = "built"
    /\ writer' = Unset
    /\ pc' = "finished"
    /\ UNCHANGED <<recB, fieldsB>>
    /\ UNCHANGED resultVars
    /\ UNCHANGED assocVars
    /\ UNCHANGED codecVars

\* value.write(&mut buf) into an empty buffer, of a value by itself
ValueWrite(value) ==
    /\ pc = "start"
    /\ call' = "Value::write"
    /\ input' = value
    /\ output' = WriteValue(value, <<>>)
    /\ pc' = "wrote"
    /\ UNCHANGED <<writer, recA, originA, fieldsA, recB, fieldsB, calls>>
    /\ UNCHANGED resultVars
    /\ UNCHANGED assocVars

NextWriter ==
    \/ \E value \in WriterValues : ValueWrite(value)
    \/ WriterNew(SchemaA)
    \/ \E id \in WriterIds, value \in WriterValues : WriterAddField(id, value)
    \/ WriterBuild

SpecWriter == Init /\ [][NextWriter]_vars

\* the ids of the add_field calls
CalledIds == {calls[k][1] : k \in 1..Len(calls)}

\* the value of the last add_field call for an id
LastValue(id) ==
    calls[CHOOSE k \in 1..Len(calls) :
            /\ calls[k][1] = id
            /\ \A j \in (k + 1)..Len(calls) : calls[j][1] # id][2]

\* C12: a successful build returns a record whose directory is strictly
\* ascending by id, whose offsets are the cumulative wire lengths of the
\* preceding fields, whose type codes are those of the stored values, whose
\* payload length is the sum of the wire lengths, and whose directory flag is set.
C12_BuildInvariants ==
    (pc = "finished" /\ IsOk(recA)) =>
        LET n == Len(recA.record.directory)
            len == [k \in 1..Len(fieldsA) |-> WireLen(fieldsA[k][2])]
        IN  /\ n = Len(fieldsA)
            /\ StrictlyAscending(recA.record.directory)
            /\ \A k \in 1..n :
                 /\ recA.record.directory[k].id = fieldsA[k][1]
                 /\ recA.record.directory[k].type_code = fieldsA[k][2].t
                 /\ recA.record.directory[k].offset = SumTo(len, k - 1)
            /\ Len(recA.record.payload) = SumTo(len, n)
            /\ recA.record.header.flags % 2 = 1

\* three calls with the greater id first, so the map reorders them, and with
\* fields that have bytes
C12_Witness ==
    /\ pc = "finished" /\ IsOk(recA)
    /\ Len(calls) = 3
    /\ U32Less(calls[2][1], calls[1][1])
    /\ Len(recA.record.directory) = 2
    /\ recA.record.directory[2].offset > 0

\* C13: add_field never fails, and the built record has one directory entry
\* per id that was added, with the type code and the raw bytes of the value of
\* the last call for that id; the values of earlier calls leave no bytes.
C13_LastWriterWins ==
    /\ (pc = "filling" /\ calls # <<>>) => IsOk(output)
    /\ (pc = "finished" /\ IsOk(recA)) =>
         LET ordered == Ascending(CalledIds)
             len == [k \in 1..Len(ordered) |-> WireLen(LastValue(ordered[k]))]
         IN  /\ DirIds(recA.record) = ordered
             /\ \A id \in CalledIds :
                  /\ EntryOf(recA.record, id).type_code = LastValue(id).t
                  /\ get_raw_bytes(recA.record, id)
                       = [err |-> "none", some |-> TRUE,
                          bytes |-> WriteValue(LastValue(id), <<>>).buf]
             /\ Len(recA.record.payload) = SumTo(len, Len(ordered))

\* an id was added twice with values of different kinds and lengths, and
\* another field was added between the two calls
C13_Witness ==
    /\ pc = "finished" /\ IsOk(recA)
    /\ Len(calls) = 3
    /\ calls[1][1] = calls[3][1]
    /\ calls[2][1] # calls[1][1]
    /\ calls[1][2].t # calls[3][2].t
    /\ WireLen(calls[1][2]) > WireLen(calls[3][2])

\* C14: a record stored as a Row field is returned unchanged by get_value, on
\* the built record and on the record read back from its written bytes,
\* whether or not other fields follow the Row field.
C14_NestedRowRoundTrip ==
    (originA = "built" /\ IsOk(recA)) =>
        \A k \in 1..Len(fieldsA), alloc_limit \in AllocLimits :
            fieldsA[k][2].t = "Row" =>
                LET stored == [err |-> "none", some |-> TRUE, value |-> fieldsA[k][2]]
                IN  /\ get_value(recA.record, fieldsA[k][1], alloc_limit) = stored
                    /\ (pc = "reread" /\ target = "A" /\ IsOk(reread))
                         => get_value(reread.record, fieldsA[k][1], alloc_limit) = stored

\* what decoding the field's own slice of the payload gives: the bytes that
\* get_raw_bytes returns, from the offset of the entry the search hits up to
\* the next entry's offset, decoded with the type code of that entry
SliceValue(record, id, alloc_limit) ==
    LET idx == BinarySearch(record.directory, id, 0, Len(record.directory))
        raw == get_raw_bytes(record, id)
    IN  IF raw.err # "none" THEN [err |-> raw.err]
        ELSE IF ~raw.some THEN [err |-> "none", some |-> FALSE]
        ELSE LET r == ReadValue(record.directory[idx + 1].type_code, raw.bytes, alloc_limit)
             IN  IF r.err # "none" THEN [err |-> r.err]
                 ELSE [err |-> "none", some |-> TRUE, value |-> r.value]

\* C15: get_value decodes a field from its own slice of the payload only: it
\* returns what decoding that slice returns, the error included, and the bytes
\* after the slice have no influence.
C15_GetValueReadsOwnSlice ==
    /\ IsOk(recA) =>
         \A id \in IdSet(recA.record), alloc_limit \in AllocLimits :
             get_value(recA.record, id, alloc_limit) = SliceValue(recA.record, id, alloc_limit)
    /\ \A f \in BOOLEAN :
         IsOk(merged[f]) =>
             \A id \in IdSet(Merged(f)), alloc_limit \in AllocLimits :
                 get_value(Merged(f), id, alloc_limit) = SliceValue(Merged(f), id, alloc_limit)

\* ------------------------------------------------------ the codec functions

(***************************************************************************)
(* A codec function is applied once to an input: a u32 is encoded and the  *)
(* bytes decoded again, a byte string is decoded as a varint, a byte       *)
(* string is parsed as a header.                                           *)
(***************************************************************************)

\* length of the byte strings handed to varint::decode
MaxVarintInput == 6

RECURSIVE Pow2(_)
Pow2(k) == IF k = 0 THEN 1 ELSE 2 * Pow2(k - 1)

\* the u32 values that are encoded, as 32-bit patterns: around every power of
\* two, with 2^31 .. 2^32 - 1 being the negative patterns
VarintValues ==
    {0} \cup {Pow2(k) : k \in 0..30} \cup {Pow2(k) - 1 : k \in 1..30}
        \cup {Pow2(k) + 1 : k \in 1..30}
        \cup {2147483647, -2147483647 - 1, -2147483647, -Pow2(28), -2, -1}

\* the bytes of the varint inputs: final bytes with segments 15 and 16, and
\* continuation bytes with segments 0, 15 and 16
VarintBytes == {15, 16, 128, 143, 144}

VarintInputs == SeqsUpTo(VarintBytes, MaxVarintInput)

\* the inputs of Header::read: every prefix of headers with a right or wrong
\* magic, a right or wrong version and several flags, followed by one byte
HeaderInputs ==
    { SubSeq(<<magic, version, flags>> \o U32LE(1) \o U32LE(SENTINEL_HASH) \o <<7>>, 1, n) :
        magic \in {MAGIC, 0}, version \in {VERSION, 255}, flags \in {0, 1, 255},
        n \in 0..12 }

\* varint::encode(value, &mut buf) into an empty buffer, then varint::decode(buf)
VarintRoundTrip ==
    /\ call = "none"
    /\ \E value \in VarintValues :
         /\ input' = value
         /\ output' = [encoded |-> encode(value), decoded |-> decode(encode(value))]
    /\ call' = "encode, decode"
    /\ UNCHANGED <<pc, writer, recA, originA, fieldsA, recB, fieldsB, calls>>
    /\ UNCHANGED resultVars
    /\ UNCHANGED assocVars

\* varint::decode(bytes)
VarintDecode ==
    /\ call = "none"
    /\ \E bytes \in VarintInputs :
         /\ input' = bytes
         /\ output' = decode(bytes)
    /\ call' = "decode"
    /\ UNCHANGED <<pc, writer, recA, originA, fieldsA, recB, fieldsB, calls>>
    /\ UNCHANGED resultVars
    /\ UNCHANGED assocVars

\* Header::read(bytes)
HeaderRead ==
    /\ call = "none"
    /\ \E bytes \in HeaderInputs :
         /\ input' = bytes
         /\ output' = ReadHeader(bytes)
    /\ call' = "Header::read"
    /\ UNCHANGED <<pc, writer, recA, originA, fieldsA, recB, fieldsB, calls>>
    /\ UNCHANGED resultVars
    /\ UNCHANGED assocVars

\* the values whose wire forms are handed to Value::read, whole or cut short:
\* one of every kind
ReadSamples ==
    { Null, Bool(TRUE), [t |-> "Int32", v |-> 7], [t |-> "Int64", v |-> <<7, 0>>],
      [t |-> "Float32", v |-> 0], [t |-> "Float64", v |-> <<0, 0>>],
      [t |-> "Bytes", v |-> <<0, 255>>], String(<<104, 105>>),
      Array(<<Bool(TRUE), Bool(FALSE)>>), Row(InnerRecord) }

\* the slices bytes[..n] of a buffer
Prefixes(bytes) == {SubSeq(bytes, 1, n) : n \in 0..Len(bytes)}

\* an array wire form whose element type is Bool and whose varint length is 0,
\* followed by nothing or by a byte
EmptyArrayWires ==
    { <<TypeCodeByte("Bool")>> \o encode(0), <<TypeCodeByte("Bool")>> \o encode(0) \o <<1>> }

\* an array wire form whose varint length is 2^32 - 1, followed by one element
HugeArrayWires == { <<TypeCodeByte("Bool")>> \o encode(-1) \o <<1>> }

\* the arguments of Value::read: a type code with every prefix of the wire form
\* of a value of that kind, and the Array code with the zero-length arrays and
\* with an array whose length no buffer backs
ValueInputs ==
    UNION { { [type_code |-> type_code(v), bytes |-> b] :
                b \in Prefixes(WriteValue(v, <<>>).buf) } : v \in ReadSamples }
      \cup { [type_code |-> "Array", bytes |-> b] : b \in EmptyArrayWires \cup HugeArrayWires }

\* Value::read(type_code, bytes), in a run whose allocator grants capacities up
\* to alloc_limit
ValueRead ==
    /\ call = "none"
    /\ \E in \in ValueInputs, alloc_limit \in AllocLimits :
         /\ input' = [type_code |-> in.type_code, bytes |-> in.bytes,
                       alloc_limit |-> alloc_limit]
         /\ output' = ReadValue(in.type_code, in.bytes, alloc_limit)
    /\ call' = "Value::read"
    /\ UNCHANGED <<pc, writer, recA, originA, fieldsA, recB, fieldsB, calls>>
    /\ UNCHANGED resultVars
    /\ UNCHANGED assocVars

\* number of directory entries of a record handed to ImprintRecord::read
MaxEntries == 3
\* largest offset of such an entry
MaxOffset == 2

\* the directories of those records: any order of ids, repeats, any offsets
RecordDirectories ==
    SeqsUpTo({ [id |-> i, type_code |-> "Bool", offset |-> o] :
                 i \in {1, 2, HighId}, o \in 0..MaxOffset }, MaxEntries)

\* the arguments of ImprintRecord::read: well-formed wire forms of a header, a
\* directory and a payload
RecordInputs ==
    { WriteRecord([header |-> [flags |-> FIELD_DIRECTORY, schema_id |-> SchemaA],
                   directory |-> d, payload |-> p]) :
        d \in RecordDirectories, p \in {<<>>, <<1>>, <<1, 0>>} }

\* ImprintRecord::read(bytes)
RecordRead ==
    /\ call = "none"
    /\ \E bytes \in RecordInputs :
         /\ input' = bytes
         /\ output' = ReadRecord(bytes)
    /\ call' = "ImprintRecord::read"
    /\ UNCHANGED <<pc, writer, recA, originA, fieldsA, recB, fieldsB, calls>>
    /\ UNCHANGED resultVars
    /\ UNCHANGED assocVars

\* one function is applied, and only once
NextCodec == VarintRoundTrip \/ VarintDecode \/ HeaderRead \/ ValueRead \/ RecordRead

SpecCodec == Init /\ [][NextCodec]_vars

\* the length of the shortest LEB128 form of a u32 given as its 32-bit pattern
ShortestLen(v) ==
    IF v < 0 THEN 5
    ELSE IF v < 128 THEN 1
    ELSE IF v < 16384 THEN 2
    ELSE IF v < 2097152 THEN 3
    ELSE IF v < 268435456 THEN 4
    ELSE 5

\* C16: decode(encode(v)) returns v and the number of bytes encode wrote, which
\* is the length of the shortest LEB128 form of v.
C16_VarintRoundTrip ==
    call = "encode, decode" =>
        /\ output.decoded = [err |-> "none", value |-> input, n |-> Len(output.encoded)]
        /\ Len(output.encoded) = ShortestLen(input)

\* 2^32 - 1 was encoded in five bytes and decoded again
C16_Witness ==
    /\ call = "encode, decode"
    /\ input = -1
    /\ output.encoded = <<255, 255, 255, 255, 15>>
    /\ output.decoded.value = -1

\* every byte of the first n bytes has the continuation bit set
AllContinue(bytes, n) == \A k \in 1..n : bytes[k] >= CONTINUATION_BIT

\* C17 as stated: decode returns BufferUnderflow for the empty input and for
\* every input of 1 to 5 bytes that all have the continuation bit set, the
\* fifth with a segment of at most 0xF.
C17_UnderflowUpToFiveBytes ==
    (call = "decode" /\ Len(input) <= 5 /\ AllContinue(input, Len(input))
       /\ (Len(input) = 5 => input[5] % 128 <= 15))
        => output.err = "BufferUnderflow"

\* C17 amended: decode returns BufferUnderflow exactly for the empty input and
\* the inputs of 1 to 4 bytes that all have the continuation bit set; for five
\* such bytes, the fifth with a segment of at most 0xF, it returns InvalidVarInt.
C17_UnderflowUpToFourBytes ==
    call = "decode" =>
        /\ output.err = "BufferUnderflow"
             <=> (Len(input) <= 4 /\ AllContinue(input, Len(input)))
        /\ (Len(input) = 5 /\ AllContinue(input, 5) /\ input[5] % 128 <= 15)
             => output.err = "InvalidVarInt"

\* five continuation bytes, the fifth with segment 0xF, were decoded
C17_Witness ==
    /\ call = "decode"
    /\ Len(input) = 5 /\ AllContinue(input, 5) /\ input[5] = 143
    /\ output.err = "InvalidVarInt"

RECURSIVE Shr7Times(_, _)
\* val >> (7 * k), shifting as encode does
Shr7Times(val, k) == IF k = 0 THEN val ELSE Shr7Times(Shr7(val), k - 1)

\* C18: decode returns InvalidVarInt when a sixth byte would have to be
\* consumed and when the fifth byte has one of the bits 4..6 set; a value it
\* returns has every segment that was read, none of its bits dropped.
C18_InvalidVarInt ==
    call = "decode" =>
        /\ (Len(input) >= 6 /\ AllContinue(input, 5)) => output.err = "InvalidVarInt"
        /\ (Len(input) >= 5 /\ AllContinue(input, 4) /\ input[5] % 128 > 15)
             => output.err = "InvalidVarInt"
        /\ IsOk(output) =>
             /\ output.n <= 5
             /\ \A k \in 1..output.n :
                  Shr7Times(output.value, k - 1) % 128 = input[k] % 128
             /\ Shr7Times(output.value, output.n) = 0

\* six bytes of which five continue, the fifth with segment 0xF: a sixth byte
\* would have to be consumed
C18_Witness ==
    /\ call = "decode"
    /\ Len(input) = 6 /\ AllContinue(input, 5) /\ input[5] = 143
    /\ output.err = "InvalidVarInt"

\* C19: Header::read checks in this order: fewer than 11 bytes fail with
\* BufferUnderflow whatever the first byte is; then a first byte other than
\* 0x49 fails with InvalidMagic(byte); then a second byte other than 0x01
\* fails with UnsupportedVersion(byte); otherwise the flags and the
\* little-endian schema id are returned and 11 bytes are consumed.
C19_HeaderValidationOrder ==
    call = "Header::read" =>
        IF Len(input) < 11 THEN output.err = "BufferUnderflow"
        ELSE IF input[1] # 73 THEN output.err = "InvalidMagic" /\ output.byte = input[1]
        ELSE IF input[2] # 1 THEN output.err = "UnsupportedVersion" /\ output.byte = input[2]
        ELSE /\ output.err = "none"
             /\ output.n = 11
             /\ output.header.flags = input[3]
             /\ U32LE(output.header.schema_id.fieldspace_id) = SubSeq(input, 4, 7)
             /\ U32LE(output.header.schema_id.schema_hash) = SubSeq(input, 8, 11)

\* a short input whose first byte is not the magic failed with BufferUnderflow
C19_Witness ==
    /\ call = "Header::read"
    /\ Len(input) = 10 /\ input[1] # MAGIC
    /\ output.err = "BufferUnderflow"

\* an array that is empty or has an element of another kind than its first
MixedOrEmpty(value) ==
    /\ value.t = "Array"
    /\ \/ Len(value.v) = 0
       \/ \E k \in 1..Len(value.v) : value.v[k].t # value.v[1].t

RECURSIVE Writable(_)
\* a value that is no array, or an array that is not empty, whose elements are
\* all of the kind of its first and are writable themselves
Writable(value) ==
    value.t = "Array" =>
        /\ ~MixedOrEmpty(value)
        /\ \A k \in 1..Len(value.v) : Writable(value.v[k])

\* C20 as stated: writing an array fails with SchemaError when it is empty or
\* has an element of another kind than its first, and succeeds for every other
\* array; build fails with SchemaError when a field is such an array.
C20_ArrayWriteChecksKinds ==
    /\ (call = "Value::write" /\ input.t = "Array") =>
         IF MixedOrEmpty(input) THEN output.err = "SchemaError" ELSE output.err = "none"
    /\ (pc = "finished" /\ \E k \in 1..Len(fieldsA) : MixedOrEmpty(fieldsA[k][2]))
         => recA.err = "SchemaError"

\* C20 amended: writing a value fails, with SchemaError, exactly when it is an
\* array that is empty, or has an element of another kind than its first, or
\* has an element that is itself such an array; build fails, with SchemaError,
\* exactly when the writer holds such a value at the time of the build.
C20_ArrayWriteChecksElements ==
    /\ call = "Value::write" =>
         IF Writable(input) THEN output.err = "none" ELSE output.err = "SchemaError"
    /\ pc = "finished" =>
         IF \A k \in 1..Len(fieldsA) : Writable(fieldsA[k][2])
           THEN recA.err = "none" ELSE recA.err = "SchemaError"

\* a writer that was handed an empty or mixed array, and then an array of one
\* element for the same id, built its record
C20_Witness ==
    /\ pc = "finished" /\ IsOk(recA)
    /\ \E k \in 1..Len(fieldsA) : fieldsA[k][2] = Array(<<Bool(TRUE)>>)
    /\ \E k \in 1..Len(calls) : MixedOrEmpty(calls[k][2])

\* -------------------------------------------------- the shape of a projection

\* the invariants of a record: ids strictly ascending, offsets non-decreasing
\* from 0 and inside the payload
RecordInvariants(record) ==
    /\ StrictlyAscending(record.directory)
    /\ \A k \in 1..Len(record.directory) :
         /\ record.directory[k].offset >= 0
         /\ record.directory[k].offset <= Len(record.payload)
         /\ k > 1 => record.directory[k - 1].offset <= record.directory[k].offset

\* the length of the raw bytes of a field a record holds
RawLen(record, id) == Len(get_raw_bytes(record, id).bytes)

\* C21: project returns Ok with an empty directory and a zero-length payload
\* whenever the id list is empty, the record has no fields, or no requested id
\* occurs in the record.
C21_ProjectOfNothing ==
    (/\ projected # Unset
     /\ \/ ids = <<>>
        \/ recA.record.directory = <<>>
        \/ Range(ids) \cap IdSet(recA.record) = {})
      => /\ IsOk(projected)
         /\ projected.record.directory = <<>>
         /\ projected.record.payload = <<>>

\* ids that the record does not hold were requested from a record with fields
\* and payload bytes, and the projection is empty
C21_Witness ==
    /\ IsOk(projected)
    /\ ids # <<>>
    /\ recA.record.directory # <<>>
    /\ recA.record.payload # <<>>
    /\ Range(ids) \cap IdSet(recA.record) = {}
    /\ projected.record.directory = <<>>
    /\ projected.record.payload = <<>>

\* C22: the header of project(R, ids) has the flags and the fieldspace_id of R,
\* and its schema_hash is 0xdeadbeef whatever R's schema_hash is and whichever
\* fields were selected.
C22_ProjectHeader ==
    projected # Unset =>
        /\ IsOk(projected)
        /\ projected.record.header.flags = recA.record.header.flags
        /\ projected.record.header.schema_id.fieldspace_id
             = recA.record.header.schema_id.fieldspace_id
        /\ projected.record.header.schema_id.schema_hash = SENTINEL_HASH

\* every field of a record whose schema_hash is not the sentinel was selected
C22_Witness ==
    /\ IsOk(projected)
    /\ recA.record.header.schema_id.schema_hash = CAFEBABE
    /\ Len(recA.record.directory) >= 2
    /\ projected.record.directory = recA.record.directory
    /\ projected.record.header.schema_id.schema_hash = SENTINEL_HASH

\* C23: for a record R that satisfies the record invariants, project(R, ids) has
\* a strictly ascending directory, the offset of each entry is the sum of the
\* byte lengths in R of the fields emitted before it, and the payload length is
\* the sum of the byte lengths of the emitted fields, at most R's payload length.
C23_ProjectLayout ==
    (projected # Unset /\ RecordInvariants(recA.record)) =>
        /\ IsOk(projected)
        /\ LET P   == projected.record
               n   == Len(P.directory)
               len == [k \in 1..n |-> RawLen(recA.record, P.directory[k].id)]
           IN  /\ StrictlyAscending(P.directory)
               /\ \A k \in 1..n : P.directory[k].offset = SumTo(len, k - 1)
               /\ Len(P.payload) = SumTo(len, n)
               /\ Len(P.payload) <= Len(recA.record.payload)

\* two fields were requested in descending order from a record of three; the
\* second entry emitted starts after the first and a field's bytes were left out
C23_Witness ==
    /\ IsOk(projected)
    /\ RecordInvariants(recA.record)
    /\ Len(ids) = 2 /\ U32Less(ids[2], ids[1])
    /\ Len(projected.record.directory) = 2
    /\ projected.record.directory[2].offset > 0
    /\ Len(projected.record.payload) < Len(recA.record.payload)

\* ------------------------------------------------ the payload of a merge

\* the bytes merge(A, B) holds for an id of A or B under option f: the
\* winner's raw bytes, followed by B's when both hold the id and f is off
Chunk(f, id) ==
    IF id \in IdSet(recA.record)
      THEN get_raw_bytes(recA.record, id).bytes
             \o (IF id \in IdSet(recB.record) /\ ~f
                   THEN get_raw_bytes(recB.record, id).bytes ELSE <<>>)
      ELSE get_raw_bytes(recB.record, id).bytes

RECURSIVE Chunks(_, _)
\* the chunks of a sequence of ids, concatenated
Chunks(f, idseq) ==
    IF idseq = <<>> THEN <<>> ELSE Chunk(f, Head(idseq)) \o Chunks(f, Tail(idseq))

AllIds == IdSet(recA.record) \cup IdSet(recB.record)

\* where the chunk of an id starts in the merged payload
ChunkStart(f, id) == Len(Chunks(f, Ascending({x \in AllIds : U32Less(x, id)})))

\* where B's retained bytes of a shared id start in the unfiltered payload
RetainedStart(id) == ChunkStart(FALSE, id) + RawLen(recA.record, id)

\* the payload of merge(A, B) is the concatenation of the chunks in ascending
\* id order
PayloadIsChunks(f) == Merged(f).payload = Chunks(f, Ascending(AllIds))

\* C24 (as stated): the payload of merge(A, B) is the concatenation, in
\* ascending id order, of one chunk per id (A's bytes then B's for a shared id
\* when the duplicates are kept, A's only when they are filtered, the holder's
\* otherwise), and no directory entry's offset points at the start of B's
\* retained bytes.
C24_MergePayloadNoOffsetAtRetained ==
    \A f \in BOOLEAN :
        merged[f] # Unset =>
            /\ IsOk(merged[f])
            /\ PayloadIsChunks(f)
            /\ ~f => \A id \in Shared : \A k \in 1..Len(Merged(f).directory) :
                       Merged(f).directory[k].offset # RetainedStart(id)

\* C24 (amended): the payload is the concatenation of the chunks; the directory
\* has one entry per id, whose offset is the start of the id's chunk; no offset
\* points at the start of B's retained bytes when A's and B's bytes of that id
\* are both non-empty.
C24_MergePayloadChunks ==
    \A f \in BOOLEAN :
        merged[f] # Unset =>
            /\ IsOk(merged[f])
            /\ PayloadIsChunks(f)
            /\ DirIds(Merged(f)) = Ascending(AllIds)
            /\ \A k \in 1..Len(Merged(f).directory) :
                 Merged(f).directory[k].offset = ChunkStart(f, Merged(f).directory[k].id)
            /\ ~f => \A id \in Shared :
                       (RawLen(recA.record, id) > 0 /\ RawLen(recB.record, id) > 0)
                         => \A k \in 1..Len(Merged(f).directory) :
                              Merged(f).directory[k].offset # RetainedStart(id)

\* the duplicates were kept for a shared id whose bytes are non-empty in both
\* records, and a later id follows it in the merged directory
C24_Witness ==
    /\ IsOk(merged[FALSE])
    /\ \E id \in Shared :
         /\ RawLen(recA.record, id) > 0 /\ RawLen(recB.record, id) > 0
         /\ \E later \in AllIds : U32Less(id, later)
    /\ Len(Merged(FALSE).payload) > Len(recA.record.payload)

\* --------------------------------------------------- reading short inputs

\* the slice is shorter than the wire form of a value of the kind being decoded
Short(in) ==
    \E v \in ReadSamples :
        /\ type_code(v) = in.type_code
        /\ in.bytes \in Prefixes(WriteValue(v, <<>>).buf) \ {WriteValue(v, <<>>).buf}

\* C25: Value::read of a slice shorter than the wire form being decoded, the
\* empty slice included, returns BufferUnderflow: it neither panics nor returns
\* a decoded value.
C25_ShortInputUnderflows ==
    (call = "Value::read" /\ Short(input)) => output.err = "BufferUnderflow"

\* C26: under both options, every id of the merged directory has in
\* merge(A, B) the raw bytes it has in the winning record, A when A holds the
\* id and B otherwise: the raw wire form of a field is never extended.
C26_MergedRawBytesAreWinners ==
    \A f \in BOOLEAN :
        merged[f] # Unset =>
            /\ IsOk(merged[f])
            /\ \A id \in IdSet(Merged(f)) :
                 get_raw_bytes(Merged(f), id)
                   = get_raw_bytes(IF id \in IdSet(recA.record) THEN recA.record
                                   ELSE recB.record, id)

\* writing the record and reading the bytes back gives its directory
WritesDirectory(record) ==
    LET r == ReadRecord(WriteRecord(record))
    IN  IsOk(r) /\ r.record.directory = record.directory

\* C27: a record returned by project or merge that has a non-empty directory
\* has the FIELD_DIRECTORY flag set, so that writing it emits the directory.
C27_DirectoryFlagSet ==
    /\ (IsOk(projected) /\ projected.record.directory # <<>>)
         => /\ has_field_directory(projected.record.header.flags)
            /\ WritesDirectory(projected.record)
    /\ \A f \in BOOLEAN :
         (IsOk(merged[f]) /\ Merged(f).directory # <<>>)
           => /\ has_field_directory(Merged(f).header.flags)
              /\ WritesDirectory(Merged(f))

\* C28: a record that ImprintRecord::read returns satisfies the record
\* invariants (ids strictly ascending, offsets non-decreasing and inside the
\* payload), hence get_raw_bytes, project and merge on it do not panic.
C28_ReadRecordIsWellFormed ==
    (call = "ImprintRecord::read" /\ IsOk(output)) =>
        /\ RecordInvariants(output.record)
        /\ \A id \in IdSet(output.record) :
             /\ get_raw_bytes(output.record, id).err = "none"
             /\ \A overflow_checks \in BOOLEAN :
                  project(output.record, <<id>>, overflow_checks).err = "none"
        /\ \A overflow_checks \in BOOLEAN :
             merge(output.record, output.record, overflow_checks).err = "none"

\* C29: when Value::write returns an error, the buffer holds what it held
\* before the call (here nothing): no byte of the rejected array remains.
C29_FailedWriteLeavesBuffer ==
    (call = "Value::write" /\ output.err # "none") => output.buf = <<>>

RECURSIVE HasEmptyArray(_)
\* the value is an array with no elements, or an array that holds one
HasEmptyArray(value) ==
    /\ value.t = "Array"
    /\ \/ Len(value.v) = 0
       \/ \E k \in 1..Len(value.v) : HasEmptyArray(value.v[k])

\* C30: Value::read never returns an array with zero elements, so a decoded
\* value is written back without SchemaError and the bytes written are the
\* bytes consumed.
C30_ReadNeverEmptyArray ==
    (call = "Value::read" /\ IsOk(output)) =>
        /\ ~HasEmptyArray(output.value)
        /\ WriteValue(output.value, <<>>)
             = [err |-> "none", buf |-> SubSeq(input.bytes, 1, output.n)]

====
